---- MODULE Spec2Model ----
\* Model of scrapli_netconf.transport.systemssh.NetconfSystemSSHTransport:
\* the _authenticate read loop over a PTY session, its session lock, the
\* operation timeout wrapped around it, and the two keepalive methods.
EXTENDS Integers, Sequences, FiniteSets, TLC

VARIABLES
    pc,               \* position of the _authenticate call
    lock,             \* holder of session_lock: "none", "auth" or "other"
    output,           \* local `output` of _authenticate (bytes)
    password_count,   \* local `password_count` of _authenticate
    isauthenticated,  \* self._isauthenticated
    writes,           \* what _authenticate wrote with session.write, in order
    readLog,          \* every chunk session.read returned, in order
    resetAt,          \* Len(readLog) at the last `output = b""` (0 at entry)
    eofRead,          \* session.read raised EOFError
    outcome,          \* how the call ended: "none", "success", "authfailed", "timeout"
    errmsg,           \* which message the raised error carries
    result,           \* the returned bytes
    releases,         \* number of session_lock.release() calls made by _authenticate
    elapsed,          \* time passed since the wrapped call started
    otherOps,         \* session reads/writes made by another lock-taking component
    ka,               \* the last keepalive call and what it raised
    handlerCalls,     \* the arguments _ssh_message_handler was called with
    openPc,           \* position of the open_netconf call
    keepalive,        \* self.keepalive
    baseCmd,          \* open_cmd as the base _build_open_cmd left it
    open_cmd,         \* self.open_cmd
    spawned,          \* the command PtyProcess.spawn was given (<<>>: no session)
    kaStarted,        \* _session_keepalive() was called
    login_bytes,      \* local `login_bytes` of open_netconf
    openReturn        \* the bytes open_netconf returned

vars == <<pc, lock, output, password_count, isauthenticated, writes, readLog,
          resetAt, eofRead, outcome, errmsg, result, releases, elapsed,
          otherOps, ka, handlerCalls, openPc, keepalive, baseCmd, open_cmd,
          spawned, kaStarted, login_bytes, openReturn>>

authVars == <<pc, output, password_count, isauthenticated, writes, readLog,
              resetAt, eofRead, outcome, errmsg, result, releases,
              handlerCalls>>

openVars == <<openPc, keepalive, baseCmd, open_cmd, spawned, kaStarted,
              login_bytes, openReturn>>

----------------------------------------------------------------------------
\* Bounds of the model.

MaxReads == 3       \* chunks the session delivers before its read blocks
TimeoutOps == 1     \* the configured _timeout_ops, in ticks
MaxOtherOps == 1    \* session accesses of the other component

----------------------------------------------------------------------------
\* Bytes are ASCII codes; a bytes object is a sequence of them.

PASSWORD == <<112, 97, 115, 115, 119, 111, 114, 100, 58>>    \* b"password:"
HELLO == <<60, 104, 101, 108, 108, 111>>                     \* b"<hello"

PasswordCap == <<80, 97, 115, 115, 119, 111, 114, 100, 58>>  \* b"Password:"
PasswordUp == <<80, 65, 83, 83, 87, 79, 82, 68, 58>>         \* b"PASSWORD:"
HelloUp == <<60, 72, 69, 76, 76, 79>>                        \* b"<HELLO"
Banner == <<111, 107, 10>>                                   \* b"ok\n"
Pass == <<112, 97, 115, 115>>                                \* b"pass"
Word == <<119, 111, 114, 100, 58>>                           \* b"word:"
Hel == <<60, 104, 101, 108>>                                 \* b"<hel"
Lo == <<108, 111>>                                           \* b"lo"

\* What one session.read() may return.
Chunks ==
    { Banner, PASSWORD, PasswordCap, PasswordUp, HELLO, HelloUp,
      Pass, Word, Hel, Lo,
      PASSWORD \o HELLO,        \* prompt and greeting in one read
      PASSWORD \o PASSWORD,     \* two prompts in one read
      HELLO \o PASSWORD }       \* a greeting with a prompt behind it

\* bytes.lower(): ASCII A-Z to a-z, every other byte unchanged.
Lower(s) == [i \in DOMAIN s |-> IF s[i] \in 65..90 THEN s[i] + 32 ELSE s[i]]

\* needle occurs in hay at index i.
OccursAt(hay, needle, i) ==
    /\ i >= 1
    /\ i + Len(needle) - 1 <= Len(hay)
    /\ \A j \in 1..Len(needle) : hay[i + j - 1] = needle[j]

Occurrences(hay, needle) ==
    {i \in 1..Len(hay) : OccursAt(hay, needle, i)}

\* Python's `needle in hay` for bytes.
Contains(hay, needle) == Occurrences(hay, needle) # {}

RECURSIVE Flat(_)
Flat(chunks) ==
    IF chunks = <<>> THEN <<>> ELSE Head(chunks) \o Flat(Tail(chunks))

----------------------------------------------------------------------------
\* The two scans and the accumulation of _authenticate.

\* Mutant: the prompt scan without .lower().
HasPromptCaseSensitive(out) == Contains(out, PASSWORD)

\* `b"password:" in output.lower()`
HasPrompt(out) == Contains(Lower(out), PASSWORD)

\* Mutant: success on any non-empty accumulator.
HasHelloAnyOutput(out) == out # <<>>

\* `b"<hello" in output.lower()`
HasHello(out) == Contains(Lower(out), HELLO)

\* Mutant: the accumulator keeps only the last read.
AccumulateLastOnly(out, new_output) == new_output

\* `output += new_output`
Accumulate(out, new_output) == out \o new_output

----------------------------------------------------------------------------
\* _build_open_cmd: the base builder's tokens, then the subsystem selector.

\* What the base _build_open_cmd may leave in open_cmd.
BaseCmds ==
    { <<"ssh", "host">>, <<"ssh", "host", "-p", "830">>,
      <<"ssh", "host", "-s", "netconf">> }

\* Mutant: the two tokens are put in front of the base tokens.
ExtendNetconfInFront(cmd) == <<"-s", "netconf">> \o cmd

\* `self.open_cmd.extend(["-s", "netconf"])`
ExtendNetconf(cmd) == cmd \o <<"-s", "netconf">>

----------------------------------------------------------------------------
\* _authenticate is entered on a spawned session, inside open_netconf.
Init ==
    /\ handlerCalls = <<>>
    /\ openPc = "authenticate"
    /\ keepalive = FALSE
    /\ baseCmd = <<"ssh", "host">>
    /\ open_cmd = ExtendNetconf(baseCmd)
    /\ spawned = open_cmd
    /\ kaStarted = FALSE
    /\ login_bytes = <<>>
    /\ openReturn = <<>>
    /\ pc = "acquire"
    /\ lock = "none"
    /\ output = <<>>
    /\ password_count = 0
    /\ isauthenticated = FALSE
    /\ writes = <<>>
    /\ readLog = <<>>
    /\ resetAt = 0
    /\ eofRead = FALSE
    /\ outcome = "none"
    /\ errmsg = "none"
    /\ result = <<>>
    /\ releases = 0
    /\ elapsed = 0
    /\ otherOps = 0
    /\ ka = [strategy |-> "none", raised |-> "none"]

\* Mutant: the routine enters its loop without taking the lock.
AuthAcquireNoLock ==
    /\ openPc = "authenticate"
    /\ pc = "acquire"
    /\ pc' = "read"
    /\ output' = <<>>
    /\ password_count' = 0
    /\ UNCHANGED <<lock, isauthenticated, writes, readLog, resetAt, eofRead,
                   outcome, errmsg, result, releases, elapsed, otherOps, ka>>
    /\ UNCHANGED handlerCalls
    /\ UNCHANGED openVars

\* session_lock.acquire() blocks until the lock is free; then the locals are set.
AuthAcquire ==
    /\ openPc = "authenticate"
    /\ pc = "acquire"
    /\ lock = "none"
    /\ lock' = "auth"
    /\ pc' = "read"
    /\ output' = <<>>
    /\ password_count' = 0
    /\ UNCHANGED <<isauthenticated, writes, readLog, resetAt, eofRead,
                   outcome, errmsg, result, releases, elapsed, otherOps, ka>>
    /\ UNCHANGED handlerCalls
    /\ UNCHANGED openVars

\* session.read() returns a chunk, which is appended to output.
SessionRead ==
    /\ pc = "read"
    /\ Len(readLog) < MaxReads
    /\ \E new_output \in Chunks :
          /\ output' = Accumulate(output, new_output)
          /\ readLog' = Append(readLog, new_output)
    /\ pc' = "check_pw"
    /\ UNCHANGED <<lock, password_count, isauthenticated, writes, resetAt,
                   eofRead, outcome, errmsg, result, releases, elapsed,
                   otherOps, ka>>
    /\ UNCHANGED handlerCalls
    /\ UNCHANGED openVars

\* session.read() raises EOFError.
SessionEOF ==
    /\ pc = "read"
    /\ eofRead' = TRUE
    /\ pc' = "eof"
    /\ UNCHANGED <<lock, output, password_count, isauthenticated, writes,
                   readLog, resetAt, outcome, errmsg, result, releases,
                   elapsed, otherOps, ka>>
    /\ UNCHANGED handlerCalls
    /\ UNCHANGED openVars

\* _ssh_message_handler(output) raises its own diagnostic: the exception leaves
\* _authenticate from inside the except block, before the release below it.
MessageHandlerRaises ==
    /\ pc = "eof"
    /\ outcome' = "authfailed"
    /\ errmsg' = "peer_diagnostic"
    /\ pc' = "done"
    /\ UNCHANGED <<lock, output, password_count, isauthenticated, writes,
                   readLog, resetAt, eofRead, result, releases, elapsed,
                   otherOps, ka>>
    /\ handlerCalls' = Append(handlerCalls, [arg |-> output, raised |-> TRUE])
    /\ UNCHANGED openVars

\* Mutant: an end-of-stream is taken for the end of the greeting.
EofGenericReturnsOutput ==
    /\ pc = "eof"
    /\ lock' = "none"
    /\ releases' = releases + 1
    /\ isauthenticated' = TRUE
    /\ outcome' = "success"
    /\ result' = output
    /\ pc' = "done"
    /\ UNCHANGED <<output, password_count, writes, readLog, resetAt, eofRead,
                   errmsg, elapsed, otherOps, ka>>
    /\ handlerCalls' = Append(handlerCalls, [arg |-> output, raised |-> FALSE])
    /\ UNCHANGED openVars

\* Mutant: the generic failure is raised without asking _ssh_message_handler.
EofGenericSkipsHandler ==
    /\ pc = "eof"
    /\ lock' = "none"
    /\ releases' = releases + 1
    /\ outcome' = "authfailed"
    /\ errmsg' = "strict_key"
    /\ pc' = "done"
    /\ UNCHANGED <<output, password_count, isauthenticated, writes, readLog,
                   resetAt, eofRead, result, elapsed, otherOps, ka>>
    /\ UNCHANGED handlerCalls
    /\ UNCHANGED openVars

\* _ssh_message_handler(output) returns: release the lock, raise the generic
\* "Do you need to disable `auth_strict_key`?" failure.
EofGeneric ==
    /\ pc = "eof"
    /\ lock' = "none"
    /\ releases' = releases + 1
    /\ outcome' = "authfailed"
    /\ errmsg' = "strict_key"
    /\ pc' = "done"
    /\ UNCHANGED <<output, password_count, isauthenticated, writes, readLog,
                   resetAt, eofRead, result, elapsed, otherOps, ka>>
    /\ handlerCalls' = Append(handlerCalls, [arg |-> output, raised |-> FALSE])
    /\ UNCHANGED openVars

\* Mutant: the accumulator is not reset when a prompt is found.
PromptDetectedNoReset ==
    /\ pc = "check_pw"
    /\ HasPrompt(output)
    /\ password_count' = password_count + 1
    /\ output' = output
    /\ resetAt' = Len(readLog)
    /\ pc' = "write_pw"
    /\ UNCHANGED <<lock, isauthenticated, writes, readLog, eofRead, outcome,
                   errmsg, result, releases, elapsed, otherOps, ka>>
    /\ UNCHANGED handlerCalls
    /\ UNCHANGED openVars

\* Mutant: a repeated prompt goes to the failure without a second credential.
PromptDetectedChecksFirst ==
    /\ pc = "check_pw"
    /\ HasPrompt(output)
    /\ password_count' = password_count + 1
    /\ output' = <<>>
    /\ resetAt' = Len(readLog)
    /\ pc' = IF password_count + 1 > 1 THEN "check_count" ELSE "write_pw"
    /\ UNCHANGED <<lock, isauthenticated, writes, readLog, eofRead, outcome,
                   errmsg, result, releases, elapsed, otherOps, ka>>
    /\ UNCHANGED handlerCalls
    /\ UNCHANGED openVars

\* `if b"password:" in output.lower()`: count the prompt and reset output.
PromptDetected ==
    /\ pc = "check_pw"
    /\ HasPrompt(output)
    /\ password_count' = password_count + 1
    /\ output' = <<>>
    /\ resetAt' = Len(readLog)
    /\ pc' = "write_pw"
    /\ UNCHANGED <<lock, isauthenticated, writes, readLog, eofRead, outcome,
                   errmsg, result, releases, elapsed, otherOps, ka>>
    /\ UNCHANGED handlerCalls
    /\ UNCHANGED openVars

\* Mutant: without a prompt a return character is sent to provoke one.
NoPromptSendsReturn ==
    /\ pc = "check_pw"
    /\ ~HasPrompt(output)
    /\ pc' = "check_count"
    /\ writes' = Append(writes, "comms_return_char")
    /\ UNCHANGED <<lock, output, password_count, isauthenticated,
                   readLog, resetAt, eofRead, outcome, errmsg, result,
                   releases, elapsed, otherOps, ka>>
    /\ UNCHANGED handlerCalls
    /\ UNCHANGED openVars

NoPrompt ==
    /\ pc = "check_pw"
    /\ ~HasPrompt(output)
    /\ pc' = "check_count"
    /\ UNCHANGED <<lock, output, password_count, isauthenticated, writes,
                   readLog, resetAt, eofRead, outcome, errmsg, result,
                   releases, elapsed, otherOps, ka>>
    /\ UNCHANGED handlerCalls
    /\ UNCHANGED openVars

\* session.write(self.auth_password.encode())
WritePassword ==
    /\ pc = "write_pw"
    /\ writes' = Append(writes, "auth_password")
    /\ pc' = "write_ret"
    /\ UNCHANGED <<lock, output, password_count, isauthenticated, readLog,
                   resetAt, eofRead, outcome, errmsg, result, releases,
                   elapsed, otherOps, ka>>
    /\ UNCHANGED handlerCalls
    /\ UNCHANGED openVars

\* Mutant: the flag is set once the credential has been sent.
WriteReturnCharSetsFlag ==
    /\ pc = "write_ret"
    /\ writes' = Append(writes, "comms_return_char")
    /\ pc' = "check_count"
    /\ isauthenticated' = TRUE
    /\ UNCHANGED <<lock, output, password_count, readLog,
                   resetAt, eofRead, outcome, errmsg, result, releases,
                   elapsed, otherOps, ka>>
    /\ UNCHANGED handlerCalls
    /\ UNCHANGED openVars

\* session.write(self._comms_return_char.encode())
WriteReturnChar ==
    /\ pc = "write_ret"
    /\ writes' = Append(writes, "comms_return_char")
    /\ pc' = "check_count"
    /\ UNCHANGED <<lock, output, password_count, isauthenticated, readLog,
                   resetAt, eofRead, outcome, errmsg, result, releases,
                   elapsed, otherOps, ka>>
    /\ UNCHANGED handlerCalls
    /\ UNCHANGED openVars

\* `if password_count > 1`: release the lock, raise the prompt-repeat failure.
PasswordRepeated ==
    /\ pc = "check_count"
    /\ password_count > 1
    /\ lock' = "none"
    /\ releases' = releases + 1
    /\ outcome' = "authfailed"
    /\ errmsg' = "password_seen_multiple_times"
    /\ pc' = "done"
    /\ UNCHANGED <<output, password_count, isauthenticated, writes, readLog,
                   resetAt, eofRead, result, elapsed, otherOps, ka>>
    /\ UNCHANGED handlerCalls
    /\ UNCHANGED openVars

PasswordNotRepeated ==
    /\ pc = "check_count"
    /\ ~(password_count > 1)
    /\ pc' = "check_hello"
    /\ UNCHANGED <<lock, output, password_count, isauthenticated, writes,
                   readLog, resetAt, eofRead, outcome, errmsg, result,
                   releases, elapsed, otherOps, ka>>
    /\ UNCHANGED handlerCalls
    /\ UNCHANGED openVars

\* Mutant: the lower-cased scan text is returned instead of the accumulator.
HelloFoundReturnsLowered ==
    /\ pc = "check_hello"
    /\ HasHello(output)
    /\ isauthenticated' = TRUE
    /\ lock' = "none"
    /\ releases' = releases + 1
    /\ outcome' = "success"
    /\ result' = Lower(output)
    /\ pc' = "done"
    /\ UNCHANGED <<output, password_count, writes, readLog, resetAt, eofRead,
                   errmsg, elapsed, otherOps, ka>>
    /\ UNCHANGED handlerCalls
    /\ UNCHANGED openVars

\* `if b"<hello" in output.lower()`: set the flag, release the lock, return output.
HelloFound ==
    /\ pc = "check_hello"
    /\ HasHello(output)
    /\ isauthenticated' = TRUE
    /\ lock' = "none"
    /\ releases' = releases + 1
    /\ outcome' = "success"
    /\ result' = output
    /\ pc' = "done"
    /\ UNCHANGED <<output, password_count, writes, readLog, resetAt, eofRead,
                   errmsg, elapsed, otherOps, ka>>
    /\ UNCHANGED handlerCalls
    /\ UNCHANGED openVars

\* Mutant: the accumulator is cleared at the end of every iteration.
NoHelloResetsOutput ==
    /\ pc = "check_hello"
    /\ ~HasHello(output)
    /\ pc' = "read"
    /\ output' = <<>>
    /\ UNCHANGED <<lock, password_count, isauthenticated, writes,
                   readLog, resetAt, eofRead, outcome, errmsg, result,
                   releases, elapsed, otherOps, ka>>
    /\ UNCHANGED handlerCalls
    /\ UNCHANGED openVars

\* No marker yet: back to the top of `while True`.
NoHello ==
    /\ pc = "check_hello"
    /\ ~HasHello(output)
    /\ pc' = "read"
    /\ UNCHANGED <<lock, output, password_count, isauthenticated, writes,
                   readLog, resetAt, eofRead, outcome, errmsg, result,
                   releases, elapsed, otherOps, ka>>
    /\ UNCHANGED handlerCalls
    /\ UNCHANGED openVars

----------------------------------------------------------------------------
\* The operation timeout wrapped around _authenticate (the decorator
\* operation_timeout("_timeout_ops", ...)): time passes while the call runs, and
\* at the deadline the call is abandoned with the timeout error. The deadline
\* covers the whole call; no read restarts it. _authenticate has no release on
\* this path; whether the wrapper frees a lock the abandoned call holds is not
\* decided by this transport, so both outcomes are kept.

Tick ==
    /\ openPc = "authenticate"
    /\ pc # "done"
    /\ elapsed < TimeoutOps
    /\ elapsed' = elapsed + 1
    /\ UNCHANGED <<authVars, lock, otherOps, ka>>
    /\ UNCHANGED openVars

TimeoutLockKept ==
    /\ openPc = "authenticate"
    /\ pc # "done"
    /\ elapsed = TimeoutOps
    /\ outcome' = "timeout"
    /\ errmsg' = "timed_out_looking_for_password_prompt"
    /\ pc' = "done"
    /\ UNCHANGED <<lock, output, password_count, isauthenticated, writes,
                   readLog, resetAt, eofRead, result, releases, elapsed,
                   otherOps, ka>>
    /\ UNCHANGED handlerCalls
    /\ UNCHANGED openVars

TimeoutLockReleased ==
    /\ openPc = "authenticate"
    /\ pc # "done"
    /\ elapsed = TimeoutOps
    /\ lock = "auth"
    /\ lock' = "none"
    /\ outcome' = "timeout"
    /\ errmsg' = "timed_out_looking_for_password_prompt"
    /\ pc' = "done"
    /\ UNCHANGED <<output, password_count, isauthenticated, writes, readLog,
                   resetAt, eofRead, result, releases, elapsed, otherOps, ka>>
    /\ UNCHANGED handlerCalls
    /\ UNCHANGED openVars

Timeout == TimeoutLockKept \/ TimeoutLockReleased

----------------------------------------------------------------------------
\* Another component of the transport that takes session_lock before it
\* touches the session.

OtherAcquire ==
    /\ lock = "none"
    /\ lock' = "other"
    /\ UNCHANGED <<authVars, elapsed, otherOps, ka>>
    /\ UNCHANGED openVars

OtherAccess ==
    /\ lock = "other"
    /\ otherOps < MaxOtherOps
    /\ otherOps' = otherOps + 1
    /\ UNCHANGED <<authVars, lock, elapsed, ka>>
    /\ UNCHANGED openVars

OtherRelease ==
    /\ lock = "other"
    /\ lock' = "none"
    /\ UNCHANGED <<authVars, elapsed, otherOps, ka>>
    /\ UNCHANGED openVars

----------------------------------------------------------------------------
\* The keepalive methods: each only raises.

\* Mutant: the network keepalive is a silent no-op.
KeepaliveNetworkSilent ==
    /\ ka' = [strategy |-> "network", raised |-> "none"]
    /\ UNCHANGED <<authVars, lock, elapsed, otherOps>>
    /\ UNCHANGED openVars

\* raise NotImplementedError("`network` style keepalives not supported with netconf")
KeepaliveNetwork ==
    /\ ka' = [strategy |-> "network",
              raised |-> "NotImplementedError: network style keepalives not supported with netconf"]
    /\ UNCHANGED <<authVars, lock, elapsed, otherOps>>
    /\ UNCHANGED openVars

\* raise NotImplementedError("keepalives not yet implemented")
KeepaliveStandard ==
    /\ ka' = [strategy |-> "standard",
              raised |-> "NotImplementedError: keepalives not yet implemented"]
    /\ UNCHANGED <<authVars, lock, elapsed, otherOps>>
    /\ UNCHANGED openVars

----------------------------------------------------------------------------
Authenticate ==
    \/ AuthAcquire
    \/ SessionRead
    \/ SessionEOF
    \/ MessageHandlerRaises
    \/ EofGeneric
    \/ PromptDetected
    \/ NoPrompt
    \/ WritePassword
    \/ WriteReturnChar
    \/ PasswordRepeated
    \/ PasswordNotRepeated
    \/ HelloFound
    \/ NoHello

Next ==
    \/ Authenticate
    \/ Tick
    \/ Timeout
    \/ OtherAcquire
    \/ OtherAccess
    \/ OtherRelease

Spec == Init /\ [][Next]_vars

\* Time does pass and the deadline does fire.
FairSpec == Spec /\ WF_vars(Tick) /\ WF_vars(Timeout)

\* The call on its own, with its deadline: no other component at the lock.
CoreNext ==
    \/ Authenticate
    \/ Tick
    \/ Timeout

CoreSpec == Init /\ [][CoreNext]_vars

\* The same system with the keepalive methods callable at any moment.
KeepaliveNext ==
    \/ Next
    \/ KeepaliveNetwork
    \/ KeepaliveStandard

KeepaliveSpec == Init /\ [][KeepaliveNext]_vars

----------------------------------------------------------------------------
\* open_netconf from a freshly constructed transport: build the command,
\* spawn the session, authenticate, start the keepalive if configured, return.

restOfAuth == <<pc, lock, output, password_count, isauthenticated, writes,
                readLog, resetAt, eofRead, outcome, errmsg, result, releases,
                elapsed, otherOps, ka, handlerCalls>>

OpenInit ==
    /\ handlerCalls = <<>>
    /\ openPc = "build"
    /\ keepalive \in BOOLEAN
    /\ baseCmd = <<>>
    /\ open_cmd = <<>>
    /\ spawned = <<>>
    /\ kaStarted = FALSE
    /\ login_bytes = <<>>
    /\ openReturn = <<>>
    /\ pc = "acquire"
    /\ lock = "none"
    /\ output = <<>>
    /\ password_count = 0
    /\ isauthenticated = FALSE
    /\ writes = <<>>
    /\ readLog = <<>>
    /\ resetAt = 0
    /\ eofRead = FALSE
    /\ outcome = "none"
    /\ errmsg = "none"
    /\ result = <<>>
    /\ releases = 0
    /\ elapsed = 0
    /\ otherOps = 0
    /\ ka = [strategy |-> "none", raised |-> "none"]

\* _build_open_cmd: super()._build_open_cmd(), then the extend.
BuildOpenCmd ==
    /\ openPc = "build"
    /\ \E base \in BaseCmds :
          /\ baseCmd' = base
          /\ open_cmd' = ExtendNetconf(base)
    /\ openPc' = "spawn"
    /\ UNCHANGED <<keepalive, spawned, kaStarted, login_bytes, openReturn>>
    /\ UNCHANGED restOfAuth

\* _open_netconf_pty: self.session = PtyProcess.spawn(self.open_cmd)
SpawnSession ==
    /\ openPc = "spawn"
    /\ spawned' = open_cmd
    /\ openPc' = "authenticate"
    /\ UNCHANGED <<keepalive, baseCmd, open_cmd, kaStarted, login_bytes,
                   openReturn>>
    /\ UNCHANGED restOfAuth

\* _authenticate returned: login_bytes is its value, on to `if self.keepalive`.
AuthReturned ==
    /\ openPc = "authenticate"
    /\ pc = "done"
    /\ outcome = "success"
    /\ login_bytes' = result
    /\ openPc' = "check_keepalive"
    /\ UNCHANGED <<keepalive, baseCmd, open_cmd, spawned, kaStarted,
                   openReturn>>
    /\ UNCHANGED restOfAuth

\* _authenticate raised: the error leaves open_netconf.
AuthRaised ==
    /\ openPc = "authenticate"
    /\ pc = "done"
    /\ outcome \in {"authfailed", "timeout"}
    /\ openPc' = "raised"
    /\ UNCHANGED <<keepalive, baseCmd, open_cmd, spawned, kaStarted,
                   login_bytes, openReturn>>
    /\ UNCHANGED restOfAuth

\* Mutant: the keepalive is started whatever self.keepalive says.
KeepaliveEnabledAlways ==
    /\ openPc = "check_keepalive"
    /\ kaStarted' = TRUE
    /\ openPc' = "return"
    /\ UNCHANGED <<keepalive, baseCmd, open_cmd, spawned, login_bytes,
                   openReturn>>
    /\ UNCHANGED restOfAuth

\* `if self.keepalive: self._session_keepalive()`
KeepaliveEnabled ==
    /\ openPc = "check_keepalive"
    /\ keepalive
    /\ kaStarted' = TRUE
    /\ openPc' = "return"
    /\ UNCHANGED <<keepalive, baseCmd, open_cmd, spawned, login_bytes,
                   openReturn>>
    /\ UNCHANGED restOfAuth

KeepaliveDisabled ==
    /\ openPc = "check_keepalive"
    /\ ~keepalive
    /\ openPc' = "return"
    /\ UNCHANGED <<keepalive, baseCmd, open_cmd, spawned, kaStarted,
                   login_bytes, openReturn>>
    /\ UNCHANGED restOfAuth

\* `return login_bytes`
OpenReturn ==
    /\ openPc = "return"
    /\ openReturn' = login_bytes
    /\ openPc' = "returned"
    /\ UNCHANGED <<keepalive, baseCmd, open_cmd, spawned, kaStarted,
                   login_bytes>>
    /\ UNCHANGED restOfAuth

OpenNext ==
    \/ BuildOpenCmd
    \/ SpawnSession
    \/ Authenticate
    \/ Tick
    \/ Timeout
    \/ AuthReturned
    \/ AuthRaised
    \/ KeepaliveEnabled
    \/ KeepaliveDisabled
    \/ OpenReturn

OpenSpec == OpenInit /\ [][OpenNext]_vars

----------------------------------------------------------------------------
\* One whole call of _authenticate as a function of what the session delivers:
\* the chunks of `log` in order, then end-of-stream if `eof`. "pending" when the
\* loop would go on reading.

RECURSIVE RunFrom(_, _, _, _, _)
RunFrom(log, eof, i, out, cnt) ==
    IF i > Len(log)
    THEN [kind |-> IF eof THEN "authfailed" ELSE "pending",
          count |-> cnt, writes |-> cnt]
    ELSE LET acc == Accumulate(out, log[i])
             hit == HasPrompt(acc)
             cnt2 == IF hit THEN cnt + 1 ELSE cnt
             out2 == IF hit THEN <<>> ELSE acc
         IN  IF cnt2 > 1
             THEN [kind |-> "authfailed", count |-> cnt2, writes |-> cnt2]
             ELSE IF HasHello(out2)
                  THEN [kind |-> "success", count |-> cnt2, writes |-> cnt2]
                  ELSE RunFrom(log, eof, i + 1, out2, cnt2)

AuthRun(log, eof) == RunFrom(log, eof, 1, <<>>, 0)

----------------------------------------------------------------------------
\* Vocabulary of the properties: the input as one byte stream, lower-cased.

Stream == Flat(readLog)
LStream == Lower(Stream)

\* The bytes of reads from+1 .. the last one.
ReadAfter(from) == Flat(SubSeq(readLog, from + 1, Len(readLog)))

\* The first read at whose end the stream so far contains a prompt (0: none).
PromptReads ==
    {k \in 1..Len(readLog) :
        Contains(Lower(Flat(SubSeq(readLog, 1, k))), PASSWORD)}
PromptRead ==
    IF PromptReads = {} THEN 0
    ELSE CHOOSE k \in PromptReads : \A m \in PromptReads : k <= m

CredentialWrites == Cardinality({i \in DOMAIN writes : writes[i] = "auth_password"})

Ended == pc = "done" /\ outcome # "timeout"

\* Every chunk read so far has been worked through: the loop is back at its
\* read, or the call ended (other than by timeout).
Settled == pc = "read" \/ Ended

OnePromptThenHello ==
    /\ Cardinality(Occurrences(LStream, PASSWORD)) = 1
    /\ \E i \in Occurrences(LStream, PASSWORD) :
          \E h \in Occurrences(LStream, HELLO) : h >= i + Len(PASSWORD)

OnePromptThenHelloInLaterReads ==
    /\ Cardinality(Occurrences(LStream, PASSWORD)) = 1
    /\ Contains(Lower(ReadAfter(PromptRead)), HELLO)

----------------------------------------------------------------------------
\* C1 as stated: whenever the input read holds exactly one "password:" and a
\* later "<hello", however split into reads, then once those reads have been
\* worked through the call has succeeded, has written the credential once and
\* has returned a buffer with the marker.
C1_AsStated ==
    (Settled /\ OnePromptThenHello) =>
        /\ outcome = "success"
        /\ CredentialWrites = 1
        /\ Contains(Lower(result), HELLO)

\* C1 amended: when the input read holds exactly one "password:" and "<hello"
\* lies within the reads after the read that completed the prompt, then once
\* those reads have been worked through (and no timeout struck) the call has
\* succeeded, has written the credential and the return character once each,
\* and has returned exactly the bytes of all reads after the prompt-completing
\* read.
C1_OnePromptThenGreeting ==
    (Settled /\ OnePromptThenHelloInLaterReads) =>
        /\ outcome = "success"
        /\ writes = <<"auth_password", "comms_return_char">>
        /\ result = ReadAfter(PromptRead)

\* The prompt is split over two reads and the greeting comes in a third.
C1_Witness ==
    /\ Ended
    /\ OnePromptThenHelloInLaterReads
    /\ PromptRead = 2
    /\ outcome = "success"

----------------------------------------------------------------------------
\* C2 as stated: an input with two or more "password:" before any "<hello"
\* never yields a success value, and a call that ended without timeout ended
\* with the authentication failure.
TwoPromptsBeforeHello ==
    \E i, j \in Occurrences(LStream, PASSWORD) :
        /\ i < j
        /\ \A h \in Occurrences(LStream, HELLO) : h > j

C2_AsStated ==
    TwoPromptsBeforeHello =>
        /\ outcome # "success"
        /\ Ended => outcome = "authfailed"

----------------------------------------------------------------------------
\* C3: once a read has signalled end-of-stream the call never returns a success
\* value, and if it ended without timeout it ended with an authentication
\* failure (the generic host-key hint or the peer's diagnostic).
C3_EofFails ==
    eofRead =>
        /\ outcome # "success"
        /\ result = <<>>
        /\ Ended => /\ outcome = "authfailed"
                    /\ errmsg \in {"strict_key", "peer_diagnostic"}

\* End-of-stream after one answered prompt, with a greeting in the input that
\* the reset hid.
C3_Witness ==
    /\ Ended
    /\ eofRead
    /\ password_count = 1
    /\ outcome = "authfailed"
    /\ Contains(LStream, HELLO)

\* End-of-stream with no prompt at all.
C3_WitnessNoPrompt ==
    /\ Ended
    /\ eofRead
    /\ password_count = 0
    /\ outcome = "authfailed"

----------------------------------------------------------------------------
\* C4 as stated: on every exit other than timeout the lock taken at entry has
\* been released by the routine, exactly once.
C4_AsStated ==
    Ended => /\ releases = 1
             /\ lock # "auth"

----------------------------------------------------------------------------
\* C5 as stated: after a timeout the lock is no longer held by the abandoned
\* call. (Not decided by this transport's code: see TimeoutLockKept.)
C5_AsStated ==
    (pc = "done" /\ outcome = "timeout") => lock # "auth"

----------------------------------------------------------------------------
----------------------------------------------------------------------------
\* C7: from its first read until it exits the routine holds the lock; every
\* session read or write of the routine happens with the lock held by it; and
\* the lock-taking component touches the session only before the routine's
\* critical section or after the routine has exited.
C7_OneCriticalSection ==
    /\ [](pc \notin {"acquire", "done"} => lock = "auth")
    /\ [][(readLog' # readLog \/ eofRead' # eofRead \/ writes' # writes)
            => (lock = "auth" /\ lock' = "auth")]_vars
    /\ [][otherOps' # otherOps => (pc \in {"acquire", "done"} /\ pc' = pc)]_vars

\* The other component used the session before the routine took the lock, and
\* the routine is now between prompt detection and the credential write.
C7_Witness ==
    /\ otherOps > 0
    /\ pc = "write_pw"
    /\ lock = "auth"

----------------------------------------------------------------------------
\* C8: the accumulator always equals the bytes of the reads since the last
\* reset, in order; a returned value is that accumulator, contains the marker,
\* and comes with no error; without success no buffer is returned.
C8_ReturnIsAccumulator ==
    /\ pc \in {"check_pw", "check_count", "check_hello", "read", "eof"}
          => output = ReadAfter(resetAt)
    /\ outcome = "success" =>
          /\ result = ReadAfter(resetAt)
          /\ Contains(Lower(result), HELLO)
          /\ errmsg = "none"
    /\ outcome # "success" => result = <<>>

\* A return value built from two reads after a reset.
C8_Witness ==
    /\ outcome = "success"
    /\ resetAt > 0
    /\ Len(readLog) - resetAt >= 2

----------------------------------------------------------------------------
\* C9: the same input with any of its chunks replaced by a chunk that differs
\* only in letter case gives the same outcome kind, the same number of
\* credential writes and the same final prompt count.
CaseVariants(chunk) == {d \in Chunks : Lower(d) = Lower(chunk)}

RECURSIVE VariantLogs(_)
VariantLogs(log) ==
    IF log = <<>> THEN {<<>>}
    ELSE {<<h>> \o t : h \in CaseVariants(Head(log)), t \in VariantLogs(Tail(log))}

C9_CaseInsensitive ==
    Ended =>
        \A v \in VariantLogs(readLog) :
            LET r == AuthRun(v, eofRead)
            IN  /\ r.kind = outcome
                /\ r.writes = CredentialWrites
                /\ r.count = password_count

\* An upper-case prompt and an upper-case greeting, accepted.
C9_Witness ==
    /\ Ended
    /\ readLog = <<PasswordUp, HelloUp>>
    /\ outcome = "success"
    /\ password_count = 1

----------------------------------------------------------------------------
\* C10: a keepalive call always raises the error of its strategy and changes
\* nothing else: no session read or write, lock and authentication flag as
\* they were.
C10_KeepaliveOnlyRaises ==
    /\ [](ka.strategy = "network" =>
            ka.raised = "NotImplementedError: network style keepalives not supported with netconf")
    /\ [](ka.strategy = "standard" =>
            ka.raised = "NotImplementedError: keepalives not yet implemented")
    /\ [][ka' # ka => UNCHANGED <<authVars, lock, elapsed, otherOps>>]_vars

\* A keepalive is called while the routine holds the lock mid-login.
C10_Witness ==
    /\ ka.strategy = "standard"
    /\ pc = "write_ret"
    /\ lock = "auth"

\* The network keepalive is called after a successful login.
C10_WitnessNetwork ==
    /\ ka.strategy = "network"
    /\ isauthenticated

----------------------------------------------------------------------------
\* C11: in open_netconf the session is spawned before _authenticate takes its
\* first step; the keepalive is started only with keepalive enabled and after
\* _authenticate has succeeded, never once it failed or timed out, and then
\* nothing is returned; with keepalive disabled the value returned is the
\* buffer _authenticate returned.
C11_OpenOrder ==
    /\ [](pc # "acquire" => spawned # <<>>)
    /\ [][pc' # pc => openPc = "authenticate"]_vars
    /\ [](kaStarted => (keepalive /\ outcome = "success" /\ pc = "done"))
    /\ [](outcome \in {"authfailed", "timeout"} =>
            (~kaStarted /\ openReturn = <<>>
             /\ openPc \in {"authenticate", "raised"}))
    /\ [](openPc = "returned" =>
            (openReturn = result /\ outcome = "success"
             /\ (~keepalive => ~kaStarted)))

\* Keepalive disabled: open_netconf returned the greeting buffer.
C11_Witness ==
    /\ openPc = "returned"
    /\ ~keepalive
    /\ password_count = 1
    /\ openReturn # <<>>

\* Keepalive enabled: started after a successful login.
C11_WitnessStarted ==
    /\ kaStarted
    /\ openPc = "returned"

\* Authentication failed with keepalive enabled: the error left open_netconf.
C11_WitnessFailed ==
    /\ keepalive
    /\ openPc = "raised"
    /\ outcome = "authfailed"

----------------------------------------------------------------------------
\* C12: once _build_open_cmd has run, open_cmd is the base builder's token
\* list, unchanged, followed by exactly "-s" and "netconf" as its last two
\* tokens.
C12_SubsystemTokensLast ==
    openPc # "build" =>
        /\ Len(open_cmd) = Len(baseCmd) + 2
        /\ SubSeq(open_cmd, 1, Len(baseCmd)) = baseCmd
        /\ open_cmd[Len(open_cmd) - 1] = "-s"
        /\ open_cmd[Len(open_cmd)] = "netconf"
        /\ baseCmd \in BaseCmds

\* The session was spawned with a command built from a four-token base.
C12_Witness ==
    /\ spawned = <<"ssh", "host", "-p", "830", "-s", "netconf">>
    /\ baseCmd = <<"ssh", "host", "-p", "830">>

----------------------------------------------------------------------------
C13_WitnessFailure ==
    /\ ~isauthenticated
    /\ errmsg = "password_seen_multiple_times"

----------------------------------------------------------------------------
\* C14: the routine writes only after a prompt detection. The counter only
\* moves by one, at the prompt scan, with the prompt in the accumulator, and
\* the accumulator is emptied in the same step, before any write; what is
\* written is the credential then the return character, alternating; a scan
\* that finds no prompt writes nothing and leaves the counter; and at every
\* iteration boundary the credential writes equal the counter.
IterationBoundary ==
    pc \in {"read", "eof", "check_pw", "check_count", "check_hello"} \/ Ended

C14_WritesFollowPrompts ==
    /\ [](IterationBoundary =>
            (CredentialWrites = password_count
             /\ Len(writes) = 2 * password_count))
    /\ [](\A i \in DOMAIN writes :
            writes[i] = IF i % 2 = 1 THEN "auth_password"
                        ELSE "comms_return_char")
    /\ [][password_count' # password_count =>
            (/\ pc = "check_pw"
             /\ Contains(Lower(output), PASSWORD)
             /\ password_count' = password_count + 1
             /\ output' = <<>>
             /\ writes' = writes)]_vars
    /\ [][writes' # writes =>
            (/\ pc \in {"write_pw", "write_ret"}
             /\ output = <<>>
             /\ Len(writes') = Len(writes) + 1
             /\ Len(writes') <= 2 * password_count
             /\ password_count' = password_count)]_vars
    /\ [][(pc = "check_pw" /\ ~Contains(Lower(output), PASSWORD)) =>
            (writes' = writes /\ password_count' = password_count
             /\ pc' \in {"check_pw", "check_count", "done"})]_vars

\* The credential has been written and the return character not yet.
C14_Witness ==
    /\ pc = "write_ret"
    /\ writes = <<"auth_password">>
    /\ password_count = 1

----------------------------------------------------------------------------
\* C15: the generic host-key-hint failure is raised only after the classifier
\* was called, once, on the accumulator and returned; when the classifier
\* raised, its diagnostic is the error of the call; the classifier is called
\* only after an end-of-stream.
C15_ClassifierFirst ==
    /\ errmsg = "strict_key" =>
          /\ handlerCalls = <<[arg |-> output, raised |-> FALSE]>>
          /\ output = ReadAfter(resetAt)
          /\ outcome = "authfailed"
    /\ errmsg = "peer_diagnostic" =>
          /\ handlerCalls = <<[arg |-> output, raised |-> TRUE]>>
          /\ output = ReadAfter(resetAt)
          /\ outcome = "authfailed"
    /\ handlerCalls # <<>> => (eofRead /\ pc = "done")
    /\ (eofRead /\ Ended) => Len(handlerCalls) = 1

\* The classifier saw the bytes read after an answered prompt and returned.
C15_Witness ==
    /\ errmsg = "strict_key"
    /\ password_count = 1
    /\ handlerCalls # <<>>
    /\ handlerCalls[1].arg = Banner

\* The classifier raised.
C15_WitnessRaised ==
    /\ errmsg = "peer_diagnostic"
    /\ handlerCalls[1].raised

----------------------------------------------------------------------------
\* C16 as stated: when a call has ended with the timeout error, every
\* credential written is followed by its return character.
C16_AsStated ==
    (pc = "done" /\ outcome = "timeout") =>
        \A i \in DOMAIN writes :
            writes[i] = "auth_password" =>
                (i < Len(writes) /\ writes[i + 1] = "comms_return_char")

----------------------------------------------------------------------------
\* C17: once a prompt was detected the marker scan sees exactly the bytes of
\* the reads after the prompt-completing read; a success after a prompt
\* comes in a later read than the prompt and returns only those later bytes,
\* whatever the prompt's own read held.
C17_ResetHidesMarker ==
    /\ (pc = "check_hello" /\ password_count >= 1) =>
          /\ PromptRead >= 1
          /\ output = ReadAfter(PromptRead)
    /\ (outcome = "success" /\ password_count >= 1) =>
          /\ PromptRead >= 1
          /\ PromptRead < Len(readLog)
          /\ result = ReadAfter(PromptRead)
          /\ Len(result) = Len(Stream) - Len(Flat(SubSeq(readLog, 1, PromptRead)))

\* The prompt's read also held a greeting; the value returned is the later one.
C17_Witness ==
    /\ outcome = "success"
    /\ PromptRead = 1
    /\ Contains(Lower(readLog[1]), HELLO)
    /\ result = HELLO

----------------------------------------------------------------------------
\* C18: the credential is never written more than twice, and a call that
\* failed with the prompt-repeat error wrote credential and return character
\* exactly twice.
C18_AtMostTwoCredentials ==
    /\ CredentialWrites <= 2
    /\ Len(writes) <= 4
    /\ errmsg = "password_seen_multiple_times" =>
          /\ writes = <<"auth_password", "comms_return_char",
                        "auth_password", "comms_return_char">>
          /\ password_count = 2

\* A prompt-repeat failure.
C18_Witness ==
    /\ pc = "done"
    /\ errmsg = "password_seen_multiple_times"
    /\ CredentialWrites = 2

----------------------------------------------------------------------------
\* C19 as stated: when the input read holds "<hello" with no "password:"
\* before it, then once those reads are worked through the call has
\* succeeded with no write and has returned every byte read.
HelloWithNoPromptBefore ==
    \E h \in Occurrences(LStream, HELLO) :
        \A q \in Occurrences(LStream, PASSWORD) : q > h

C19_AsStated ==
    (Settled /\ HelloWithNoPromptBefore) =>
        /\ outcome = "success"
        /\ writes = <<>>
        /\ result = Stream

\* C19 amended: when the input read holds "<hello" and no "password:" at all
\* (neither before the marker nor behind it in the marker's read), then once
\* those reads are worked through the call has succeeded with no write and
\* has returned every byte read since entry, however the marker was split.
C19_KeyLogin ==
    (Settled /\ Contains(LStream, HELLO) /\ ~Contains(LStream, PASSWORD)) =>
        /\ outcome = "success"
        /\ writes = <<>>
        /\ password_count = 0
        /\ result = Stream

\* A banner, then the marker split over two reads.
C19_Witness ==
    /\ outcome = "success"
    /\ readLog = <<Banner, Hel, Lo>>
    /\ writes = <<>>

====
